---- MODULE Spec2Model ----
(***************************************************************************)
(* Model of the AQT quantization helpers: aqt/tensorflow/aqt_common.py     *)
(* (shape conformance, clip bounds, conv contraction validation) and of    *)
(* the TensorQuantizer / pass_through behaviour exercised by               *)
(* aqt/jax/aqt_tensor_test.py.                                             *)
(*                                                                         *)
(* Every operation is a call: `call` holds the operation name and its      *)
(* arguments, `result` what the call returned or raised, `quant_state`     *)
(* the TensorQuantizer variable collection kept by the test harness.       *)
(* The pure functions are applied once to arguments drawn by the initial   *)
(* state; the quantizer is driven by an arbitrary sequence of calls.       *)
(***************************************************************************)
EXTENDS Integers, Sequences, FiniteSets, TLC

VARIABLES call, result, quant_state

vars == <<call, result, quant_state>>

(***************************************************************************)
(* Bounds of the model.                                                    *)
(***************************************************************************)
MaxBits == 25
MaxRank == 2
MaxDim == 4
FracBits == 23

(***************************************************************************)
(* Program constants.                                                      *)
(***************************************************************************)
MaxFloatBits == 23
SafeEpsShift == 20
NoneDim == 0 - 1

(***************************************************************************)
(* Exact binary fractions.  Python floats are binary64; every value the    *)
(* clip bound code produces for bits <= 23 is k * 2^-20 with k < 2^44, so  *)
(* the float operations are exact and are modelled by exact arithmetic on  *)
(* [i |-> integer part, f |-> fraction in units of 2^-FracBits].           *)
(***************************************************************************)
RECURSIVE Pow2(_)
Pow2(n) == IF n <= 0 THEN 1 ELSE 2 * Pow2(n - 1)

ONE == Pow2(FracBits)
HALF == ONE \div 2

Dy(i, f) == [i |-> i, f |-> f]

\* 2.0 ** e, for -FracBits <= e
Pow2Dy(e) == IF e >= 0 THEN Dy(Pow2(e), 0) ELSE Dy(0, Pow2(FracBits + e))

DyLess(a, b) == a.i < b.i \/ (a.i = b.i /\ a.f < b.f)

\* a - b for a >= b
DySub(a, b) ==
  IF a.f >= b.f THEN Dy(a.i - b.i, a.f - b.f)
  ELSE Dy(a.i - b.i - 1, a.f + ONE - b.f)

\* a / 2.0
DyHalve(a) == Dy(a.i \div 2, (a.f + (a.i % 2) * ONE) \div 2)

Ok(v) == [status |-> "ok", val |-> v]
Raise(e) == [status |-> e, val |-> 0]
NoCall == [op |-> "none"]
NoResult == [status |-> "none", val |-> 0]

(***************************************************************************)
(* check_shapes_conformal                                                  *)
(***************************************************************************)
Min(a, b) == IF a < b THEN a ELSE b

\* zip(actual, expected) followed by the comprehension of lines 41-43
expected_shape(actual, expected) ==
  [k \in 1..Min(Len(actual), Len(expected)) |->
     IF actual[k] # NoneDim THEN actual[k] ELSE expected[k]]

check_shapes_conformal_direct(actual, expected) ==
  LET compatible_rank == Len(actual) = Len(expected)
      compatible_size == actual = expected
  IN IF ~compatible_rank \/ ~compatible_size
       THEN Raise("ValueError") ELSE Ok(0)

check_shapes_conformal(actual, expected) ==
  LET compatible_rank == Len(actual) = Len(expected)
      compatible_size == actual = expected_shape(actual, expected)
  IN IF ~compatible_rank \/ ~compatible_size
       THEN Raise("ValueError") ELSE Ok(0)

Dims == {NoneDim} \cup (2..MaxDim)
Shapes == UNION {[1..n -> Dims] : n \in 0..MaxRank}

ShapeCalls ==
  [op : {"check_shapes_conformal"}, actual : Shapes, expected : Shapes]

CallCheckShapes ==
  /\ call.op = "check_shapes_conformal"
  /\ result.status = "none"
  /\ result' = check_shapes_conformal(call.actual, call.expected)
  /\ UNCHANGED <<call, quant_state>>

(***************************************************************************)
(* get_clip_bound / safe_clip_bound                                        *)
(***************************************************************************)
IntQuantConfig == [bits : 0..MaxBits, preserve_zero : BOOLEAN]

\* aqt_config.IntQuantConfig.validate: bits is a positive integer
validate(config) == config.bits >= 1

get_clip_bound_swapped(config) ==
  IF ~validate(config) THEN Raise("ConfigError")
  ELSE IF ~(config.bits <= MaxFloatBits) THEN Raise("AssertionError")
  ELSE LET bucket_count == Pow2Dy(config.bits)
       IN Ok(DyHalve(IF ~config.preserve_zero
                       THEN DySub(bucket_count, Dy(1, 0))
                       ELSE bucket_count))

get_clip_bound_loose(config) ==
  IF ~validate(config) THEN Raise("ConfigError")
  ELSE IF ~(config.bits <= MaxFloatBits + 1) THEN Raise("AssertionError")
  ELSE LET bucket_count == Pow2Dy(config.bits)
       IN Ok(DyHalve(IF config.preserve_zero
                       THEN DySub(bucket_count, Dy(1, 0))
                       ELSE bucket_count))

get_clip_bound(config) ==
  IF ~validate(config) THEN Raise("ConfigError")
  ELSE IF ~(config.bits <= MaxFloatBits) THEN Raise("AssertionError")
  ELSE LET bucket_count == Pow2Dy(config.bits)
       IN Ok(DyHalve(IF config.preserve_zero
                       THEN DySub(bucket_count, Dy(1, 0))
                       ELSE bucket_count))

safe_clip_bound_unsafe(config) ==
  LET cb_unsafe == get_clip_bound(config)
  IN IF cb_unsafe.status # "ok" THEN cb_unsafe
     ELSE LET cb == cb_unsafe.val
          IN IF ~DyLess(cb, cb_unsafe.val) THEN Raise("AssertionError")
             ELSE Ok(cb)

safe_clip_bound_noassert(config) ==
  LET cb_unsafe == get_clip_bound(config)
  IN IF cb_unsafe.status # "ok" THEN cb_unsafe ELSE Ok(cb_unsafe.val)

safe_clip_bound(config) ==
  LET cb_unsafe == get_clip_bound(config)
  IN IF cb_unsafe.status # "ok" THEN cb_unsafe
     ELSE LET cb == DySub(cb_unsafe.val,
                          Pow2Dy(0 - SafeEpsShift + config.bits))
          IN IF ~DyLess(cb, cb_unsafe.val) THEN Raise("AssertionError")
             ELSE Ok(cb)

CallGetClipBound ==
  /\ call.op = "get_clip_bound"
  /\ result.status = "none"
  /\ result' = get_clip_bound(call.config)
  /\ UNCHANGED <<call, quant_state>>

CallSafeClipBound ==
  /\ call.op = "safe_clip_bound"
  /\ result.status = "none"
  /\ result' = safe_clip_bound(call.config)
  /\ UNCHANGED <<call, quant_state>>

\* clip(x, -bound, bound) on a sign/magnitude value
clip(x, bound) ==
  IF DyLess(bound, x.mag) THEN [neg |-> x.neg, mag |-> bound] ELSE x

\* round to nearest, ties to even
round(x) ==
  LET m == x.mag
      r == IF m.f < HALF THEN m.i
           ELSE IF m.f > HALF THEN m.i + 1
           ELSE IF m.i % 2 = 0 THEN m.i ELSE m.i + 1
  IN IF x.neg THEN 0 - r ELSE r

\* the values around the top of the signed range of a config
ClipInputs(config) ==
  LET top == Pow2(config.bits - 1)
  IN [neg : BOOLEAN,
      mag : [i : {0, top - 1, top, top + 1} \cup {n \in {top - 2} : n >= 0},
             f : {0, HALF - 1, HALF, HALF + 1, ONE - 1}]]

ClipCalls ==
  [op : {"get_clip_bound", "safe_clip_bound"}, config : IntQuantConfig]
    \cup UNION {[op : {"clip_round"}, config : {config},
                 x : ClipInputs(config)] : config \in IntQuantConfig}

\* round(clip(x, -safe_clip_bound, safe_clip_bound)); the bound is computed
\* first and its error propagates
CallClipRound ==
  /\ call.op = "clip_round"
  /\ result.status = "none"
  /\ LET bound == safe_clip_bound(call.config)
     IN result' = IF bound.status # "ok" THEN bound
                  ELSE Ok(round(clip(call.x, bound.val)))
  /\ UNCHANGED <<call, quant_state>>

(***************************************************************************)
(* validate_conv_contraction                                               *)
(***************************************************************************)
MaxAxis == 3

DataFormats == {<<"N", "H", "W", "C">>, <<"N", "C", "H", "W">>,
                <<"H", "W", "I", "O">>, <<"O", "I", "H", "W">>}
FeatureDimChars == {"C", "I"}
StatsConfig == [share_stats_axes : SUBSET (0..MaxAxis)]

Contains(data_format, dim) == \E k \in 1..Len(data_format) : data_format[k] = dim

\* str.index: 0-based position of the first occurrence
index(data_format, dim) ==
  (CHOOSE k \in 1..Len(data_format) :
     /\ data_format[k] = dim
     /\ \A j \in 1..(k - 1) : data_format[j] # dim) - 1

\* the for loop of lines 122-127 over dims[n..]
RECURSIVE conv_loop(_, _, _, _)
conv_loop(stats_axes, data_format, dims, n) ==
  IF n > Len(dims) THEN Ok(0)
  ELSE IF ~Contains(data_format, dims[n]) THEN Raise("ValueError")
  ELSE IF index(data_format, dims[n]) \notin stats_axes
         THEN Raise("ConfigError")
  ELSE conv_loop(stats_axes, data_format, dims, n + 1)

validate_conv_contraction_hw(config, data_format, feature_dim_char) ==
  conv_loop(config.share_stats_axes, data_format, <<"H", "W">>, 1)

validate_conv_contraction(config, data_format, feature_dim_char) ==
  LET stats_axes == config.share_stats_axes
      dims == <<"H", "W", feature_dim_char>>
  IN conv_loop(stats_axes, data_format, dims, 1)

ConvCalls ==
  [op : {"validate_conv_contraction"}, config : StatsConfig,
   data_format : DataFormats, feature_dim_char : FeatureDimChars]

CallValidateConv ==
  /\ call.op = "validate_conv_contraction"
  /\ result.status = "none"
  /\ result' = validate_conv_contraction(call.config, call.data_format,
                                         call.feature_dim_char)
  /\ UNCHANGED <<call, quant_state>>

(***************************************************************************)
(* TensorQuantizer (aqt_tensor), driven through the test harness           *)
(***************************************************************************)
MaxSample == 1
MaxWeight == 1
MaxOnes == 2
MaxEvent == 1

InitLastUpdate == 0 - 1
QuantConfig == [bits |-> 8, preserve_zero |-> TRUE]

Abs(x) == IF x < 0 THEN 0 - x ELSE x

RECURSIVE Gcd(_, _)
Gcd(a, b) == IF b = 0 THEN a ELSE Gcd(b, a % b)

\* a * k and a / n for a small natural k, n > 0
DyMulInt(a, k) == Dy(a.i * k + (a.f * k) \div ONE, (a.f * k) % ONE)
DyDivInt(a, n) == Dy(a.i \div n, ((a.i % n) * ONE + a.f) \div n)

\* Stats.init_stats
init_stats ==
  [sum_of_ones |-> 0, sum_of_vals |-> 0,
   sum_of_l1_vals |-> 0, sum_of_lp_vals |-> 0]

\* Stats.with_update, plain accumulation with lp_order = 2
with_update(stats, sample, weight) ==
  [sum_of_ones |-> stats.sum_of_ones + weight,
   sum_of_vals |-> stats.sum_of_vals + sample * weight,
   sum_of_l1_vals |-> stats.sum_of_l1_vals + Abs(sample) * weight,
   sum_of_lp_vals |-> stats.sum_of_lp_vals + sample * sample * weight]

\* Stats.max_dev as the reduced fraction sum_of_l1_vals / sum_of_ones
max_dev(stats) ==
  IF stats.sum_of_ones = 0 THEN [num |-> 0, den |-> 1]
  ELSE LET g == Gcd(stats.sum_of_l1_vals, stats.sum_of_ones)
       IN [num |-> stats.sum_of_l1_vals \div g,
           den |-> stats.sum_of_ones \div g]

\* scale = max_dev / safe_clip_bound, kept as (num / den) / over; 1 when
\* max_dev is zero
UnitScale == [num |-> 1, den |-> 1, over |-> Dy(1, 0)]

calibrate(stats) ==
  LET md == max_dev(stats)
  IN IF md.num = 0 THEN UnitScale
     ELSE [num |-> md.num, den |-> md.den,
           over |-> safe_clip_bound(QuantConfig).val]

\* x / scale as a sign/magnitude value
div_scale(x, scale) ==
  [neg |-> x < 0,
   mag |-> DyDivInt(DyMulInt(scale.over, Abs(x) * scale.den), scale.num)]

\* TensorQuantizer._to_quant
to_quant(state, x) ==
  round(clip(div_scale(x, state.scale), safe_clip_bound(QuantConfig).val))

\* TensorQuantizer.init
init_quantizer ==
  [stats |-> init_stats, scale |-> UnitScale,
   last_update |-> InitLastUpdate, quantized_variable |-> 0]

update_always(state, sample, weight, event_count) ==
  LET stats == with_update(state.stats, sample, weight)
      new == [stats |-> stats, scale |-> calibrate(stats),
              last_update |-> event_count,
              quantized_variable |-> state.quantized_variable]
  IN [new EXCEPT !.quantized_variable = to_quant(new, sample)]

\* TensorQuantizer.update
update(state, sample, weight, event_count) ==
  IF event_count = state.last_update THEN state
  ELSE LET stats == with_update(state.stats, sample, weight)
           new == [stats |-> stats, scale |-> calibrate(stats),
                   last_update |-> event_count,
                   quantized_variable |-> state.quantized_variable]
       IN [new EXCEPT !.quantized_variable = to_quant(new, sample)]

\* int(event_count) on a count given in halves
int(event_count) == event_count \div 2

\* AqtTensorQuantizerTest.update_quantizer; result.val records whether the
\* call arrived for a new step (1) or repeated the last one (0)
update_quantizer ==
  \E sample \in (0 - MaxSample)..MaxSample, weight \in 0..MaxWeight,
     event_count \in 0..(2 * MaxEvent + 1) :
    /\ quant_state.stats.sum_of_ones + weight <= MaxOnes
    /\ call' = [op |-> "update", sample |-> sample, weight |-> weight,
                event_count |-> event_count]
    /\ quant_state' = update(quant_state, sample, weight, int(event_count))
    /\ result' = Ok(IF int(event_count) = quant_state.last_update
                       THEN 0 ELSE 1)

\* AqtTensorQuantizerTest.to_quant
CallToQuant ==
  \E x \in (0 - MaxSample)..MaxSample :
    /\ call' = [op |-> "to_quant", x |-> x]
    /\ result' = Ok(to_quant(quant_state, x))
    /\ UNCHANGED quant_state

(***************************************************************************)
(* pass_through (straight-through estimator)                               *)
(***************************************************************************)
MaxX == 8

Inputs == (0 - MaxX)..MaxX

\* forward functions with their true derivatives: the test's affine
\* x * eps + eps, rounding to even multiples, a constant, a square
Fns ==
  [affine |-> [f |-> [x \in Inputs |-> x * 3 + 3], df |-> [x \in Inputs |-> 3]],
   round2 |-> [f |-> [x \in Inputs |-> 2 * (x \div 2)],
               df |-> [x \in Inputs |-> 0]],
   const  |-> [f |-> [x \in Inputs |-> 7], df |-> [x \in Inputs |-> 0]],
   square |-> [f |-> [x \in Inputs |-> x * x], df |-> [x \in Inputs |-> 2 * x]]]

FnNames == DOMAIN Fns

\* forward rule
pass_through(x, fn) == fn.f[x]

pass_through_bwd_chain(x, fn, g) == fn.df[x] * g

\* backward rule: the cotangent g is handed to x unchanged
pass_through_bwd(x, fn, g) == g

\* jax.grad(pass_through)(x, fn): backward rule applied to cotangent 1
grad_pass_through(x, fn) == pass_through_bwd(x, fn, 1)

STECalls ==
  [op : {"pass_through", "grad_pass_through"}, x : Inputs, fn : FnNames]

CallPassThrough ==
  /\ call.op = "pass_through"
  /\ result.status = "none"
  /\ result' = Ok(pass_through(call.x, Fns[call.fn]))
  /\ UNCHANGED <<call, quant_state>>

CallGradPassThrough ==
  /\ call.op = "grad_pass_through"
  /\ result.status = "none"
  /\ result' = Ok(grad_pass_through(call.x, Fns[call.fn]))
  /\ UNCHANGED <<call, quant_state>>

(***************************************************************************)
(* Specifications                                                          *)
(***************************************************************************)
\* a pure function about to be applied to arguments drawn from calls
InitCall(calls) ==
  /\ call \in calls
  /\ result = NoResult
  /\ quant_state = init_quantizer

InitShapes == InitCall(ShapeCalls)
NextShapes == CallCheckShapes
SpecShapes == InitShapes /\ [][NextShapes]_vars

InitClip == InitCall(ClipCalls)
NextClip == CallGetClipBound \/ CallSafeClipBound \/ CallClipRound
SpecClip == InitClip /\ [][NextClip]_vars

InitConv == InitCall(ConvCalls)
NextConv == CallValidateConv
SpecConv == InitConv /\ [][NextConv]_vars

InitSTE == InitCall(STECalls)
NextSTE == CallPassThrough \/ CallGradPassThrough
SpecSTE == InitSTE /\ [][NextSTE]_vars

\* the state after make_tensor_quantizer
InitQuant == InitCall({NoCall})
NextQuant == update_quantizer \/ CallToQuant
SpecQuant == InitQuant /\ [][NextQuant]_vars

(***************************************************************************)
(* Properties                                                              *)
(***************************************************************************)
\* the docstring's relation: equal rank and identical sizes in all
\* non-None dimensions of expected
Conforms(actual, expected) ==
  /\ Len(actual) = Len(expected)
  /\ \A k \in 1..Len(expected) :
       expected[k] # NoneDim => actual[k] = expected[k]

IsShapeCall ==
  call.op = "check_shapes_conformal" /\ result.status # "none"

\* C1: check_shapes_conformal raises ValueError for every pair of shapes in
\* which actual does not conform to expected (rank mismatch, or a known
\* expected dimension that actual does not equal).
C1_NonConformalRaises ==
  (IsShapeCall /\ ~Conforms(call.actual, call.expected))
    => result.status = "ValueError"

\* C2: check_shapes_conformal returns without raising for every pair of
\* shapes of equal rank whose sizes agree wherever expected is not None.
C2_ConformalPasses ==
  (IsShapeCall /\ Conforms(call.actual, call.expected))
    => result.status = "ok"

C2_Witness ==
  /\ IsShapeCall
  /\ call.actual = <<2, 3>>
  /\ call.expected = <<2, NoneDim>>
  /\ result.status = "ok"

ValidBits(config) == 1 <= config.bits /\ config.bits <= MaxFloatBits

\* (2^bits - 1) / 2 when zero is preserved, 2^bits / 2 otherwise
HalfBuckets(config) ==
  IF config.preserve_zero THEN Dy(Pow2(config.bits - 1) - 1, HALF)
  ELSE Dy(Pow2(config.bits - 1), 0)

DyAdd(a, b) == Dy(a.i + b.i + (a.f + b.f) \div ONE, (a.f + b.f) % ONE)

\* C3: for every valid config get_clip_bound returns exactly half the
\* bucket count: 2^(bits-1) - 0.5 when zero is preserved, 2^(bits-1)
\* otherwise.
C3_ClipBoundValue ==
  (/\ call.op = "get_clip_bound"
   /\ result.status # "none"
   /\ ValidBits(call.config))
    => /\ result.status = "ok"
       /\ result.val = HalfBuckets(call.config)
       /\ DyAdd(result.val, result.val) =
            Dy(Pow2(call.config.bits)
                 - (IF call.config.preserve_zero THEN 1 ELSE 0), 0)

C3_Witness ==
  /\ call.op = "get_clip_bound"
  /\ call.config = [bits |-> 8, preserve_zero |-> TRUE]
  /\ result.status = "ok"
  /\ result.val = Dy(127, HALF)

\* C4: for bits > 23 get_clip_bound fails and returns no clip value, and
\* safe_clip_bound fails the same way.
C4_TooManyBitsFails ==
  (call.op \in {"get_clip_bound", "safe_clip_bound"}
     /\ result.status # "none"
     /\ call.config.bits > MaxFloatBits)
    => result.status = "AssertionError"

C4_Witness ==
  /\ call.op = "safe_clip_bound"
  /\ call.config.bits = MaxFloatBits + 1
  /\ result.status = "AssertionError"

IsSafeCall ==
  call.op = "safe_clip_bound" /\ result.status # "none" /\ ValidBits(call.config)

\* C5: for every valid config the gap get_clip_bound - safe_clip_bound is
\* smaller than one bucket's resolution 2^(-bits).
C5_GapBelowResolution ==
  IsSafeCall
    => /\ result.status = "ok"
       /\ DyLess(DySub(HalfBuckets(call.config), result.val),
                 Pow2Dy(0 - call.config.bits))

IsClipRound ==
  call.op = "clip_round" /\ result.status # "none" /\ ValidBits(call.config)

InSignedRange(config, n) ==
  0 - Pow2(config.bits - 1) <= n /\ n <= Pow2(config.bits - 1) - 1

C7_SafeBelowClipBound ==
  IsSafeCall
    => /\ result.status = "ok"
       /\ DyAdd(result.val, Pow2Dy(call.config.bits - SafeEpsShift))
            = HalfBuckets(call.config)
       /\ DyLess(result.val, HalfBuckets(call.config))

C7_Witness ==
  /\ call.op = "safe_clip_bound"
  /\ call.config = [bits |-> 8, preserve_zero |-> TRUE]
  /\ result.status = "ok"
  /\ result.val = Dy(127, HALF - Pow2(FracBits - 12))

ContractionDims == {"H", "W", call.feature_dim_char}

SomeAxisMissing ==
  \E dim \in ContractionDims :
    index(call.data_format, dim) \notin call.config.share_stats_axes

IsConvCall ==
  /\ call.op = "validate_conv_contraction"
  /\ result.status # "none"
  /\ \A dim \in ContractionDims : Contains(call.data_format, dim)

\* C8: validate_conv_contraction raises ConfigError exactly when one of the
\* positions of H, W and the feature dimension is missing from
\* share_stats_axes, and returns without error otherwise.
C8_ContractionAxesShared ==
  IsConvCall
    => /\ result.status = "ConfigError" <=> SomeAxisMissing
       /\ result.status = "ok" <=> ~SomeAxisMissing

C8_Witness ==
  /\ IsConvCall
  /\ call.data_format = <<"N", "H", "W", "C">>
  /\ call.feature_dim_char = "C"
  /\ call.config.share_stats_axes = {1, 2}
  /\ result.status = "ConfigError"

\* C9: an update whose event_count equals last_update leaves stats, scale,
\* last_update and quantized_variable unchanged, whatever sample and weight
\* it carries.
C9_UpdateIdempotent ==
  [][(call'.op = "update"
        /\ int(call'.event_count) = quant_state.last_update)
       => quant_state' = quant_state]_vars

C9_Witness ==
  /\ call.op = "update"
  /\ result.val = 0
  /\ call.weight > 0
  /\ call.sample # 0
  /\ quant_state.stats.sum_of_ones = 1
  /\ quant_state.last_update = int(call.event_count)

\* C10: pass_through(x, fn) returns fn(x) on the forward pass and its
\* gradient with respect to x is 1 whatever the derivative of fn is.
C10_StraightThrough ==
  /\ (call.op = "pass_through" /\ result.status # "none")
       => result = Ok(Fns[call.fn].f[call.x])
  /\ (call.op = "grad_pass_through" /\ result.status # "none")
       => result = Ok(1)

C10_Witness ==
  /\ call.op = "grad_pass_through"
  /\ call.fn = "round2"
  /\ Fns[call.fn].df[call.x] = 0
  /\ result.val = 1
====
